---- MODULE Spec2Model ----
(***************************************************************************)
(* Model of the API access layer (lib/api.js) and of the login screen      *)
(* (app/login.jsx) of the logistics mobile client: backend discovery       *)
(* (detectApiBaseUrl / tryHost), the connection test, the bootstrap        *)
(* (initializeApp), the request wrappers and the login handler.            *)
(*                                                                         *)
(* JavaScript strings that the code takes apart (URLs, hosts) are          *)
(* sequences of one-character strings, so that replace, includes, split    *)
(* and the regular expressions act on them as they do in the code.         *)
(* null/undefined is the one-element sequence Null.                        *)
(***************************************************************************)
EXTENDS Integers, Sequences, FiniteSets, TLC

Null == <<"null">>

\* ------------------------------------------------------------------ strings
\* s.startsWith(p)
StartsWith(s, p) == Len(s) >= Len(p) /\ SubSeq(s, 1, Len(p)) = p

\* s.indexOf(p) + 1 : position of the first occurrence of p in s, 0 if none
IndexOf(s, p) ==
  IF \E i \in 1..(Len(s) - Len(p) + 1) : SubSeq(s, i, i + Len(p) - 1) = p
  THEN CHOOSE i \in 1..(Len(s) - Len(p) + 1) :
         /\ SubSeq(s, i, i + Len(p) - 1) = p
         /\ \A j \in 1..(i - 1) : SubSeq(s, j, j + Len(p) - 1) # p
  ELSE 0

\* s.includes(p)
Includes(s, p) == IndexOf(s, p) # 0

\* s.replace(p, r) with a string pattern: only the first occurrence
ReplaceFirst(s, p, r) ==
  LET i == IndexOf(s, p) IN
  IF i = 0 THEN s
  ELSE SubSeq(s, 1, i - 1) \o r \o SubSeq(s, i + Len(p), Len(s))

\* faulty variant: the trailing slash is kept
KeepTrailingSlash(s) == s

\* s.replace(/\/$/, '') : one trailing slash removed
StripTrailingSlash(s) ==
  IF Len(s) > 0 /\ s[Len(s)] = "/" THEN SubSeq(s, 1, Len(s) - 1) ELSE s

\* s.split(sep)[0]
SplitFirst(s, sep) ==
  LET i == IndexOf(s, sep) IN IF i = 0 THEN s ELSE SubSeq(s, 1, i - 1)

\* Boolean(x) for a string or null
Truthy(x) == x # Null /\ x # <<>>

\* /^https?:\/\//.test(s)
HasProtocol(s) ==
  \/ StartsWith(s, <<"h", "t", "t", "p", ":", "/", "/">>)
  \/ StartsWith(s, <<"h", "t", "t", "p", "s", ":", "/", "/">>)

HTTP == <<"h", "t", "t", "p", ":", "/", "/">>
HTTPS == <<"h", "t", "t", "p", "s", ":", "/", "/">>
API == <<"/", "a", "p", "i">>
PORT5000 == <<":", "5", "0", "0", "0">>
HEALTH == <<"/", "h", "e", "a", "l", "t", "h">>

\* ---------------------------------------------------------------- constants
\* let API_BASE_URL = 'http://16.176.194.83:5000/api'
InitialBase ==
  <<"h", "t", "t", "p", ":", "/", "/", "1", "6", ".", "1", "7", "6", ".",
    "1", "9", "4", ".", "8", "3", ":", "5", "0", "0", "0", "/", "a", "p", "i">>
HardcodedHost ==
  <<"1", "6", ".", "1", "7", "6", ".", "1", "9", "4", ".", "8", "3">>
AndroidLoopback == <<"1", "0", ".", "0", ".", "2", ".", "2">>
Localhost == <<"l", "o", "c", "a", "l", "h", "o", "s", "t">>

\* ------------------------------------------------- environments considered
\* base: process.env.EXPO_PUBLIC_API_BASE, host: process.env.EXPO_PUBLIC_API_HOST,
\* uri: Constants.expoConfig.hostUri, os: Platform.OS,
\* stored: AsyncStorage 'lastApiHost' left by an earlier session,
\* up: the health URLs on which a server can answer OK
AnyUrl == [any |-> TRUE, urls |-> {}]
Only(urls) == [any |-> FALSE, urls |-> urls]
LocalhostHealth5000 ==
  <<"h", "t", "t", "p", ":", "/", "/">> \o Localhost
    \o <<":", "5", "0", "0", "0", "/", "a", "p", "i", "/", "h", "e", "a", "l", "t", "h">>
LocalhostHealth ==
  <<"h", "t", "t", "p", ":", "/", "/">> \o Localhost
    \o <<"/", "a", "p", "i", "/", "h", "e", "a", "l", "t", "h">>
BareDevice ==
  [base |-> Null, host |-> Null, uri |-> Null, os |-> "ios", stored |-> Null,
   up |-> AnyUrl]
LocalServer ==
  [base |-> Null, host |-> Null, uri |-> Null, os |-> "ios", stored |-> Null,
   up |-> Only({ LocalhostHealth, LocalhostHealth5000 })]
ExplicitBase ==
  [base |-> <<"h", "t", "t", "p", ":", "/", "/", "a", "/", "a", "p", "i">>,
   host |-> Null, uri |-> Null, os |-> "android", stored |-> Null,
   up |-> AnyUrl]
ExplicitBaseSlash ==
  [base |-> <<"h", "t", "t", "p", "s", ":", "/", "/", "a", "/", "a", "p", "i", "/">>,
   host |-> <<"b">>, uri |-> <<"c", ":", "8", "0", "8", "1">>, os |-> "ios",
   stored |-> <<"b">>, up |-> AnyUrl]
AllSources ==
  [base |-> Null, host |-> <<"a", "p", "i", "x">>,
   uri |-> <<"c", ":", "8", "0", "8", "1">>, os |-> "android",
   stored |-> <<"b">>, up |-> AnyUrl]
BaseWithoutProtocol ==
  [base |-> <<"a", "/", "a", "p", "i">>, host |-> Null, uri |-> Null,
   os |-> "android", stored |-> HardcodedHost, up |-> AnyUrl]
\* an earlier session ended with setApiBaseUrl('http://b:5000/api'), which
\* stores the host together with its port
OverriddenEarlier ==
  [base |-> Null, host |-> Null, uri |-> Null, os |-> "ios",
   stored |-> <<"b", ":", "5", "0", "0", "0">>,
   up |-> Only({ <<"h", "t", "t", "p", ":", "/", "/", "b", ":", "5", "0", "0", "0",
                   "/", "a", "p", "i", "/", "h", "e", "a", "l", "t", "h">> })]
EnvHostOnly ==
  [base |-> Null, host |-> <<"b">>, uri |-> Null, os |-> "ios",
   stored |-> Null, up |-> AnyUrl]

Environments ==
  { BareDevice, LocalServer, ExplicitBase, ExplicitBaseSlash, AllSources,
    BaseWithoutProtocol, OverriddenEarlier, EnvHostOnly }
ScreenEnvironments == { LocalServer, ExplicitBase }

VARIABLES
  envBase, envHost, hostUri, platformOS,   \* process.env, Constants, Platform
  backend,                                 \* the health URLs a server answers on
  API_BASE_URL,                            \* module variable of lib/api.js
  lastApiHost, accessToken, userData,      \* AsyncStorage items
  pc, round,                               \* position inside initializeApp
  candidates, hostIdx, varIdx, probeTimer, \* locals of detectApiBaseUrl/tryHost
  healthUrls, testIdx, failures,           \* locals of api.testConnection
  isConnected,                             \* initializeApp's result
  inFlight,                                \* health probes awaiting an answer
  probeLog,                                \* probes issued by the current detection
  detectRuns, testRuns, testResults,       \* rounds run by initializeApp
  hostReads, hostWrites,                   \* accesses to item 'lastApiHost'
  detectOutcome, detectReturn,             \* how the last detection ended
  baseBefore, hostBefore,                  \* base and item when it started
  okProbe,                                 \* the probe that answered OK
  testBase, testLog, testOkUrl             \* base at test start, URLs probed, URL answered OK

bootVars ==
  << envBase, envHost, hostUri, platformOS, backend, API_BASE_URL, lastApiHost,
     pc, round, candidates, hostIdx, varIdx, probeTimer, healthUrls, testIdx,
     failures, isConnected, inFlight, probeLog, detectRuns, testRuns,
     testResults, hostReads, hostWrites, detectOutcome, detectReturn,
     baseBefore, hostBefore, okProbe, testBase, testLog, testOkUrl >>

VARIABLES
  connectionStatus, apiBase,               \* useState of the Login screen
  email, password, loading,
  route, alert,                            \* router location, last Alert.alert title
  loginPc, loginCalls, loginRequests       \* handleLogin: position, invocations, POSTs sent

uiVars ==
  << connectionStatus, apiBase, email, password, loading, route, alert,
     loginPc, loginCalls, loginRequests, userData >>

VARIABLES
  reqPc, reqOp, sent, reqTimer,            \* API call in progress, request put on the wire
  reqResponse, reqResult, reqCalls         \* response received, outcome of the call, calls made

reqVars ==
  << accessToken, reqPc, reqOp, sent, reqTimer, reqResponse, reqResult,
     reqCalls >>

vars == << bootVars, uiVars, reqVars >>

\* ------------------------------------------------- detectApiBaseUrl, tryHost
\* hostUri.split(':')[0]
packagerHost == IF Truthy(hostUri) THEN SplitFirst(hostUri, <<":">>) ELSE Null

emulatorHost == IF platformOS = "android" THEN AndroidLoopback ELSE Localhost

IsPresent(c) == Truthy(c.host)

\* faulty variant: the cached host is put before the environment override
RawCandidatesStoredFirst(storedHost) ==
  << [src |-> "stored", host |-> storedHost],
     [src |-> "env", host |-> envHost],
     [src |-> "packager", host |-> packagerHost],
     [src |-> "hardcoded", host |-> HardcodedHost],
     [src |-> "hardcoded", host |-> HardcodedHost],
     [src |-> "emulator", host |-> emulatorHost],
     [src |-> "localhost", host |-> Localhost] >>

\* the array literal of lines 38-46; src names the origin of each entry
RawCandidates(storedHost) ==
  << [src |-> "env", host |-> envHost],
     [src |-> "stored", host |-> storedHost],
     [src |-> "packager", host |-> packagerHost],
     [src |-> "hardcoded", host |-> HardcodedHost],
     [src |-> "hardcoded", host |-> HardcodedHost],
     [src |-> "emulator", host |-> emulatorHost],
     [src |-> "localhost", host |-> Localhost] >>

\* [...].filter(Boolean)
BuildCandidates(storedHost) == SelectSeq(RawCandidates(storedHost), IsPresent)

\* faulty variant: the https variants are tried before the http ones
VariantsHttpsFirst(host) ==
  << [base |-> HTTPS \o host \o API,
      health |-> HTTPS \o host \o API \o HEALTH],
     [base |-> HTTPS \o host \o PORT5000 \o API,
      health |-> HTTPS \o host \o PORT5000 \o API \o HEALTH],
     [base |-> HTTP \o host \o API,
      health |-> HTTP \o host \o API \o HEALTH],
     [base |-> HTTP \o host \o PORT5000 \o API,
      health |-> HTTP \o host \o PORT5000 \o API \o HEALTH] >>

\* const variants = [...] of tryHost
Variants(host) ==
  << [base |-> HTTP \o host \o API,
      health |-> HTTP \o host \o API \o HEALTH],
     [base |-> HTTP \o host \o PORT5000 \o API,
      health |-> HTTP \o host \o PORT5000 \o API \o HEALTH],
     [base |-> HTTPS \o host \o API,
      health |-> HTTPS \o host \o API \o HEALTH],
     [base |-> HTTPS \o host \o PORT5000 \o API,
      health |-> HTTPS \o host \o PORT5000 \o API \o HEALTH] >>

\* a server can answer OK on url
CanAnswer(url) == backend.any \/ url \in backend.urls

NoProbe == [cand |-> 0, variant |-> 0, url |-> <<>>, base |-> <<>>]

ProbeOutcomes == { "ok", "notok", "throw", "abort" }

\* entry of detectApiBaseUrl: the explicit base, or the read of 'lastApiHost'
DetectEntry ==
  /\ pc = "detect"
  /\ detectRuns' = detectRuns + 1
  /\ probeLog' = <<>>
  /\ okProbe' = NoProbe
  /\ baseBefore' = API_BASE_URL
  /\ hostBefore' = lastApiHost
  /\ IF Truthy(envBase) /\ HasProtocol(envBase)
     THEN /\ API_BASE_URL' = StripTrailingSlash(envBase)
          /\ detectReturn' = API_BASE_URL'
          /\ detectOutcome' = "explicit"
          /\ pc' = "detected"
          /\ UNCHANGED hostReads
     ELSE /\ hostReads' = hostReads + 1
          /\ detectOutcome' = "running"
          /\ pc' = "getItem"
          /\ detectReturn' = Null
          /\ UNCHANGED API_BASE_URL
  /\ UNCHANGED << envBase, envHost, hostUri, platformOS, backend, lastApiHost, round,
                  candidates, hostIdx, varIdx, probeTimer, healthUrls,
                  testIdx, failures, isConnected, inFlight, testRuns,
                  testResults, hostWrites, testBase, testLog, testOkUrl >>
  /\ UNCHANGED << uiVars, reqVars >>

\* await AsyncStorage.getItem('lastApiHost').catch(() => null), then the list
DetectGetItem ==
  /\ pc = "getItem"
  /\ \E rejected \in BOOLEAN :
       candidates' = BuildCandidates(IF rejected THEN Null ELSE lastApiHost)
  /\ hostIdx' = 1
  /\ varIdx' = 1
  /\ pc' = "tryHost"
  /\ UNCHANGED << envBase, envHost, hostUri, platformOS, backend, API_BASE_URL,
                  lastApiHost, round, probeTimer, healthUrls, testIdx,
                  failures, isConnected, inFlight, probeLog, detectRuns,
                  testRuns, testResults, hostReads, hostWrites, detectOutcome,
                  detectReturn, baseBefore, hostBefore, okProbe, testBase,
                  testLog, testOkUrl >>
  /\ UNCHANGED << uiVars, reqVars >>

CurrentVariant == Variants(candidates[hostIdx].host)[varIdx]

\* tryHost: setTimeout(abort, 3500) and fetch(v.health)
DetectProbe ==
  /\ pc = "tryHost"
  /\ hostIdx <= Len(candidates)
  /\ probeTimer' = TRUE
  /\ inFlight' = inFlight + 1
  /\ probeLog' = Append(probeLog, [cand |-> hostIdx, variant |-> varIdx,
                                   url |-> CurrentVariant.health,
                                   base |-> CurrentVariant.base])
  /\ pc' = "fetch"
  /\ UNCHANGED << envBase, envHost, hostUri, platformOS, backend, API_BASE_URL,
                  lastApiHost, round, candidates, hostIdx, varIdx, healthUrls,
                  testIdx, failures, isConnected, detectRuns, testRuns,
                  testResults, hostReads, hostWrites, detectOutcome,
                  detectReturn, baseBefore, hostBefore, okProbe, testBase,
                  testLog, testOkUrl >>
  /\ UNCHANGED << uiVars, reqVars >>

\* the loops "for (const v of variants)" and "for (const host of candidates)"
NextVarIdx == IF varIdx < Len(Variants(candidates[hostIdx].host)) THEN varIdx + 1 ELSE 1
NextHostIdx == IF varIdx < Len(Variants(candidates[hostIdx].host)) THEN hostIdx ELSE hostIdx + 1

\* the fetch of tryHost settles: res.ok, a non-OK status, a rejection, or the
\* 3.5 s timer aborting it
DetectResp ==
  /\ pc = "fetch"
  /\ inFlight' = inFlight - 1
  /\ \E outcome \in ProbeOutcomes :
       /\ outcome = "abort" => probeTimer
       /\ outcome = "ok" => CanAnswer(CurrentVariant.health)
       /\ IF outcome = "ok"
          THEN /\ API_BASE_URL' = StripTrailingSlash(CurrentVariant.base)
               /\ okProbe' = [cand |-> hostIdx, variant |-> varIdx,
                              url |-> CurrentVariant.health,
                              base |-> CurrentVariant.base]
               /\ hostWrites' = hostWrites + 1
               /\ pc' = "setItem"
               /\ UNCHANGED << hostIdx, varIdx, probeTimer >>
          ELSE /\ probeTimer' = FALSE
               /\ varIdx' = NextVarIdx
               /\ hostIdx' = NextHostIdx
               /\ pc' = "tryHost"
               /\ UNCHANGED << API_BASE_URL, okProbe, hostWrites >>
  /\ UNCHANGED << envBase, envHost, hostUri, platformOS, backend, lastApiHost, round,
                  candidates, healthUrls, testIdx, failures, isConnected,
                  probeLog, detectRuns, testRuns, testResults, hostReads,
                  detectOutcome, detectReturn, baseBefore, hostBefore,
                  testBase, testLog, testOkUrl >>
  /\ UNCHANGED << uiVars, reqVars >>

\* faulty variant: the detected base is cached in place of the host
DetectSetItemStoresBase ==
  /\ pc = "setItem"
  /\ \E rejected \in BOOLEAN :
       /\ lastApiHost' = IF rejected THEN lastApiHost ELSE API_BASE_URL
       /\ detectOutcome' = IF rejected THEN "detectedUnsaved" ELSE "detected"
  /\ probeTimer' = FALSE
  /\ detectReturn' = API_BASE_URL
  /\ pc' = "detected"
  /\ UNCHANGED << envBase, envHost, hostUri, platformOS, backend,
                  API_BASE_URL, round, candidates, hostIdx, varIdx,
                  healthUrls, testIdx, failures, isConnected, inFlight,
                  probeLog, detectRuns, testRuns, testResults, hostReads,
                  hostWrites, baseBefore, hostBefore, okProbe, testBase,
                  testLog, testOkUrl >>
  /\ UNCHANGED << uiVars, reqVars >>

\* await AsyncStorage.setItem('lastApiHost', host).catch(() => {}); finally;
\* return true, and detectApiBaseUrl returns API_BASE_URL
DetectSetItem ==
  /\ pc = "setItem"
  /\ \E rejected \in BOOLEAN :
       /\ lastApiHost' = IF rejected THEN lastApiHost
                         ELSE candidates[hostIdx].host
       /\ detectOutcome' = IF rejected THEN "detectedUnsaved" ELSE "detected"
  /\ probeTimer' = FALSE
  /\ detectReturn' = API_BASE_URL
  /\ pc' = "detected"
  /\ UNCHANGED << envBase, envHost, hostUri, platformOS, backend, API_BASE_URL, round,
                  candidates, hostIdx, varIdx, healthUrls, testIdx, failures,
                  isConnected, inFlight, probeLog, detectRuns, testRuns,
                  testResults, hostReads, hostWrites, baseBefore, hostBefore,
                  okProbe, testBase, testLog, testOkUrl >>
  /\ UNCHANGED << uiVars, reqVars >>

\* every candidate failed: console.warn and return API_BASE_URL
DetectFallback ==
  /\ pc = "tryHost"
  /\ hostIdx > Len(candidates)
  /\ detectReturn' = API_BASE_URL
  /\ detectOutcome' = "fallback"
  /\ pc' = "detected"
  /\ UNCHANGED << envBase, envHost, hostUri, platformOS, backend, API_BASE_URL,
                  lastApiHost, round, candidates, hostIdx, varIdx, probeTimer,
                  healthUrls, testIdx, failures, isConnected, inFlight,
                  probeLog, detectRuns, testRuns, testResults, hostReads,
                  hostWrites, baseBefore, hostBefore, okProbe, testBase,
                  testLog, testOkUrl >>
  /\ UNCHANGED << uiVars, reqVars >>

\* ------------------------------------------- api.testConnection, initializeApp
\* `${API_BASE_URL.replace('/api','')}:5000/api`
WithPort5000(base) == ReplaceFirst(base, API, <<>>) \o PORT5000 \o API

\* const healthUrls = [...].filter(Boolean)
BuildHealthUrls(base) ==
  SelectSeq(<< base \o HEALTH,
               IF Includes(base, PORT5000) THEN Null
               ELSE WithPort5000(base) \o HEALTH >>,
            Truthy)

TestOutcomes == { "ok", "notok", "throw" }

\* entry of api.testConnection
TestEntry ==
  /\ pc = "detected"
  /\ testRuns' = testRuns + 1
  /\ testBase' = API_BASE_URL
  /\ healthUrls' = BuildHealthUrls(API_BASE_URL)
  /\ testIdx' = 1
  /\ failures' = <<>>
  /\ testLog' = <<>>
  /\ testOkUrl' = Null
  /\ pc' = "testNext"
  /\ UNCHANGED << envBase, envHost, hostUri, platformOS, backend, API_BASE_URL,
                  lastApiHost, round, candidates, hostIdx, varIdx, probeTimer,
                  isConnected, inFlight, probeLog, detectRuns, testResults,
                  hostReads, hostWrites, detectOutcome, detectReturn,
                  baseBefore, hostBefore, okProbe >>
  /\ UNCHANGED << uiVars, reqVars >>

\* fetch(h, { method: 'GET', ... })
TestProbe ==
  /\ pc = "testNext"
  /\ testIdx <= Len(healthUrls)
  /\ inFlight' = inFlight + 1
  /\ testLog' = Append(testLog, healthUrls[testIdx])
  /\ pc' = "testFetch"
  /\ UNCHANGED << envBase, envHost, hostUri, platformOS, backend, API_BASE_URL,
                  lastApiHost, round, candidates, hostIdx, varIdx, probeTimer,
                  healthUrls, testIdx, failures, isConnected, probeLog,
                  detectRuns, testRuns, testResults, hostReads, hostWrites,
                  detectOutcome, detectReturn, baseBefore, hostBefore,
                  okProbe, testBase, testOkUrl >>
  /\ UNCHANGED << uiVars, reqVars >>

\* the fetch of testConnection settles
TestResp ==
  /\ pc = "testFetch"
  /\ inFlight' = inFlight - 1
  /\ \E outcome \in TestOutcomes :
       /\ outcome = "ok" => CanAnswer(healthUrls[testIdx])
       /\ CASE outcome = "ok" ->
                /\ testOkUrl' = healthUrls[testIdx]
                /\ pc' = "testJson"
                /\ UNCHANGED << testIdx, failures >>
            [] outcome = "notok" ->
                /\ testIdx' = testIdx + 1
                /\ pc' = "testNext"
                /\ UNCHANGED << testOkUrl, failures >>
            [] outcome = "throw" ->
                /\ failures' = Append(failures, healthUrls[testIdx])
                /\ testIdx' = testIdx + 1
                /\ pc' = "testNext"
                /\ UNCHANGED testOkUrl
  /\ UNCHANGED << envBase, envHost, hostUri, platformOS, backend, API_BASE_URL,
                  lastApiHost, round, candidates, hostIdx, varIdx, probeTimer,
                  healthUrls, isConnected, probeLog, detectRuns, testRuns,
                  testResults, hostReads, hostWrites, detectOutcome,
                  detectReturn, baseBefore, hostBefore, okProbe, testBase,
                  testLog >>
  /\ UNCHANGED << uiVars, reqVars >>

\* faulty variant: a failed test is always followed by another round
initializeAppRetryAgain(result) ==
  /\ testResults' = Append(testResults, result)
  /\ IF ~result /\ round <= 2
     THEN /\ round' = round + 1
          /\ pc' = "detect"
          /\ UNCHANGED isConnected
     ELSE /\ isConnected' = result
          /\ pc' = "returned"
          /\ UNCHANGED round

\* initializeApp after "await api.testConnection()": the second chance after
\* a failed first test, the return of isConnected otherwise
initializeApp(result) ==
  /\ testResults' = Append(testResults, result)
  /\ IF ~result /\ round = 1
     THEN /\ round' = 2
          /\ pc' = "detect"
          /\ UNCHANGED isConnected
     ELSE /\ isConnected' = result
          /\ pc' = "returned"
          /\ UNCHANGED round

\* try { await res.json() } catch {}; the adjustment to port 5000; return true
TestSuccess ==
  /\ pc = "testJson"
  /\ API_BASE_URL' =
       IF Includes(healthUrls[testIdx], PORT5000)
          /\ ~Includes(API_BASE_URL, PORT5000)
       THEN WithPort5000(API_BASE_URL)
       ELSE API_BASE_URL
  /\ initializeApp(TRUE)
  /\ UNCHANGED << envBase, envHost, hostUri, platformOS, backend, lastApiHost,
                  candidates, hostIdx, varIdx, probeTimer, healthUrls,
                  testIdx, failures, inFlight, probeLog, detectRuns, testRuns,
                  hostReads, hostWrites, detectOutcome, detectReturn,
                  baseBefore, hostBefore, okProbe, testBase, testLog,
                  testOkUrl >>
  /\ UNCHANGED << uiVars, reqVars >>

\* all health probes failed: return false
TestFailure ==
  /\ pc = "testNext"
  /\ testIdx > Len(healthUrls)
  /\ initializeApp(FALSE)
  /\ UNCHANGED << envBase, envHost, hostUri, platformOS, backend, API_BASE_URL,
                  lastApiHost, candidates, hostIdx, varIdx, probeTimer,
                  healthUrls, testIdx, failures, inFlight, probeLog,
                  detectRuns, testRuns, hostReads, hostWrites, detectOutcome,
                  detectReturn, baseBefore, hostBefore, okProbe, testBase,
                  testLog, testOkUrl >>
  /\ UNCHANGED << uiVars, reqVars >>

\* --------------------------------------------------------- the Login screen
Emails == { <<>>, <<"e">> }
Passwords == { <<>>, <<"p">> }

\* the continuation of the effect: setConnectionStatus, setApiBase
EffectDone ==
  /\ pc = "returned"
  /\ connectionStatus' = IF isConnected THEN "connected" ELSE "failed"
  /\ apiBase' = API_BASE_URL
  /\ pc' = "done"
  /\ UNCHANGED << envBase, envHost, hostUri, platformOS, backend, API_BASE_URL,
                  lastApiHost, round, candidates, hostIdx, varIdx, probeTimer,
                  healthUrls, testIdx, failures, isConnected, inFlight,
                  probeLog, detectRuns, testRuns, testResults, hostReads,
                  hostWrites, detectOutcome, detectReturn, baseBefore,
                  hostBefore, okProbe, testBase, testLog, testOkUrl >>
  /\ UNCHANGED << email, password, loading, route, alert, loginPc, loginCalls,
                  loginRequests, userData >>
  /\ UNCHANGED reqVars

\* bound on the invocations of handleLogin
MaxLoginCalls == 2

LoginOutcomes == { "success", "refused", "httpError", "networkError" }

\* transformedUser as kept by the auth context
LoggedInUser == [kind |-> "user", id |-> 7]

\* onChangeText={setEmail}
SetEmail ==
  /\ route = "/login"
  /\ alert = "none"
  /\ \E e \in Emails : e # email /\ email' = e
  /\ UNCHANGED << connectionStatus, apiBase, password, loading, route, alert,
                  loginPc, loginCalls, loginRequests, userData >>
  /\ UNCHANGED << bootVars, reqVars >>

\* onChangeText={setPassword}
SetPassword ==
  /\ route = "/login"
  /\ alert = "none"
  /\ \E p \in Passwords : p # password /\ password' = p
  /\ UNCHANGED << connectionStatus, apiBase, email, loading, route, alert,
                  loginPc, loginCalls, loginRequests, userData >>
  /\ UNCHANGED << bootVars, reqVars >>

\* the user closes the alert dialog
DismissAlert ==
  /\ alert # "none"
  /\ alert' = "none"
  /\ UNCHANGED << connectionStatus, apiBase, email, password, loading, route,
                  loginPc, loginCalls, loginRequests, userData >>
  /\ UNCHANGED << bootVars, reqVars >>

\* faulty variant: the connection status is not looked at
handleLoginUnchecked ==
  /\ loginCalls < MaxLoginCalls
  /\ loginCalls' = loginCalls + 1
  /\ IF ~Truthy(email) \/ ~Truthy(password)
     THEN /\ alert' = "Error"
          /\ UNCHANGED << loading, loginPc, loginRequests >>
     ELSE /\ loading' = TRUE
          /\ loginRequests' = loginRequests + 1
          /\ loginPc' = "fetch"
          /\ UNCHANGED alert
  /\ UNCHANGED << connectionStatus, apiBase, email, password, route,
                  userData >>
  /\ UNCHANGED << bootVars, reqVars >>

\* handleLogin up to "await api.login(email, password)", whose fetch it issues
handleLogin ==
  /\ loginCalls < MaxLoginCalls
  /\ loginCalls' = loginCalls + 1
  /\ IF connectionStatus = "failed"
     THEN /\ alert' = "Connection Error"
          /\ UNCHANGED << loading, loginPc, loginRequests >>
     ELSE IF ~Truthy(email) \/ ~Truthy(password)
     THEN /\ alert' = "Error"
          /\ UNCHANGED << loading, loginPc, loginRequests >>
     ELSE /\ loading' = TRUE
          /\ loginRequests' = loginRequests + 1
          /\ loginPc' = "fetch"
          /\ UNCHANGED alert
  /\ UNCHANGED << connectionStatus, apiBase, email, password, route,
                  userData >>
  /\ UNCHANGED << bootVars, reqVars >>

\* disabled={loading || connectionStatus === 'failed'}
LoginDisabled == loading \/ connectionStatus = "failed"

\* onPress={handleLogin} of the login button
PressLogin ==
  /\ route = "/login"
  /\ alert = "none"
  /\ ~LoginDisabled
  /\ handleLogin

\* handleLogin invoked as a function, whatever the button shows
CallHandleLogin ==
  /\ route = "/login"
  /\ loginPc = "idle"
  /\ handleLogin

\* api.login settles; "resp.success && resp.user", else the catch and finally
LoginResp ==
  /\ loginPc = "fetch"
  /\ \E outcome \in LoginOutcomes :
       IF outcome = "success"
       THEN /\ loginPc' = "store"
            /\ UNCHANGED << alert, loading >>
       ELSE /\ alert' = "Login Failed"
            /\ loading' = FALSE
            /\ loginPc' = "idle"
  /\ UNCHANGED << connectionStatus, apiBase, email, password, route,
                  loginCalls, loginRequests, userData >>
  /\ UNCHANGED << bootVars, reqVars >>

\* await login(transformedUser); router.replace('/dashboard'); finally
LoginStore ==
  /\ loginPc = "store"
  /\ \E stored \in BOOLEAN :
       IF stored
       THEN /\ userData' = LoggedInUser
            /\ route' = "/dashboard"
            /\ UNCHANGED alert
       ELSE /\ alert' = "Login Failed"
            /\ UNCHANGED << userData, route >>
  /\ loading' = FALSE
  /\ loginPc' = "idle"
  /\ UNCHANGED << connectionStatus, apiBase, email, password, loginCalls,
                  loginRequests >>
  /\ UNCHANGED << bootVars, reqVars >>

\* ------------------------------------------------------------ the API layer
\* bound on the API calls made
MaxRequests == 2

NoUser == [kind |-> "absent", id |-> 0]
\* AsyncStorage 'userData': absent, not JSON, a user without or with Account_id
UserDatas ==
  { NoUser, [kind |-> "corrupt", id |-> 0], [kind |-> "user", id |-> 0],
    LoggedInUser }
\* AsyncStorage 'accessToken'
Tokens == { Null, <<"t", "1">> }

ContentTypeJson == [h \in {"Content-Type"} |-> <<"application/json">>]

\* getAuthHeaders: Content-Type, and X-User-Id when userData has an Account_id
getAuthHeaders ==
  IF userData.kind = "user" /\ userData.id # 0
  THEN [h \in {"X-User-Id"} |-> <<userData.id>>] @@ ContentTypeJson
  ELSE ContentTypeJson

\* delete headers[name]
DeleteHeader(headers, name) == [h \in DOMAIN headers \ {name} |-> headers[h]]

\* ...(token ? { Authorization: `Bearer ${token}` } : {})
BearerHeader(token) ==
  IF Truthy(token) THEN [h \in {"Authorization"} |-> <<"Bearer", token>>]
  ELSE <<>>

\* options.headers of the callers of api.request: none, or the user headers
\* of getMyAssignments / getMyCompletedDeliveries without Content-Type
RequestCallers == { "plain", "getMyAssignments" }
OptionHeaders(caller) ==
  IF caller = "getMyAssignments"
  THEN DeleteHeader(getAuthHeaders, "Content-Type")
  ELSE <<>>

\* headers of api.request: Content-Type, Authorization, then options.headers
RequestHeaders(token, optionHeaders) ==
  optionHeaders @@ BearerHeader(token) @@ ContentTypeJson

NoRequest == [op |-> "none", headers |-> <<>>, token |-> Null]
NoResponse == [event |-> "none", ok |-> FALSE, text |-> <<>>]
NoResult == [kind |-> "none", value |-> <<>>]

NetworkRequestFailed == "Network request failed"
\* response bodies: empty, JSON, not JSON, a body quoting the network error
JsonText == <<"{\"success\":true}">>
Texts == { <<>>, JsonText, <<"oops">>, <<NetworkRequestFailed>> }

\* try { data = text ? JSON.parse(text) : null } catch {}
ParseBody(text) == IF text = JsonText THEN <<"success", "true">> ELSE Null

TimeoutMessage == <<"Request timed out (10s) contacting ">>
CannotConnectMessage == <<"Cannot connect to server at ">>

\* faulty variant: every error is rethrown as it came
RequestCatchRethrow(error) == error.message

\* the catch block of api.request: the error thrown to the caller
RequestCatch(error) ==
  IF error.name = "AbortError"
  THEN TimeoutMessage \o API_BASE_URL \o <<".">>
  ELSE IF Includes(error.message, <<NetworkRequestFailed>>)
  THEN CannotConnectMessage \o API_BASE_URL
  ELSE error.message

\* `HTTP ${response.status}: ${text}` or `Request failed (${response.status})`
HttpErrorMessage(text) ==
  IF Truthy(text) THEN <<"HTTP ", "status", ": ">> \o text
  ELSE <<"Request failed (", "status", ")">>

\* api.request up to its fetch: the token read (a storage error leaves it
\* undefined), the headers, the 10 s timer
RequestCall ==
  /\ reqPc = "idle"
  /\ reqCalls < MaxRequests
  /\ reqCalls' = reqCalls + 1
  /\ reqOp' = "api.request"
  /\ \E storageError \in BOOLEAN, caller \in RequestCallers :
       LET token == IF storageError THEN Null ELSE accessToken IN
       sent' = [op |-> "api.request",
                headers |-> RequestHeaders(token, OptionHeaders(caller)),
                token |-> accessToken]
  /\ reqTimer' = TRUE
  /\ reqResponse' = NoResponse
  /\ reqResult' = NoResult
  /\ reqPc' = "fetch"
  /\ UNCHANGED accessToken
  /\ UNCHANGED << bootVars, uiVars >>

\* the fetch of api.request settles: a response, a rejection, or the abort
RequestResp ==
  /\ reqPc = "fetch"
  /\ reqOp = "api.request"
  /\ \/ /\ \E ok \in BOOLEAN, text \in Texts :
             reqResponse' = [event |-> "response", ok |-> ok, text |-> text]
        /\ reqPc' = "text"
        /\ UNCHANGED << reqTimer, reqResult >>
     \/ /\ reqResponse' = [event |-> "network", ok |-> FALSE, text |-> <<>>]
        /\ reqResult' =
             [kind |-> "throw",
              value |-> RequestCatch([name |-> "TypeError",
                                      message |-> <<NetworkRequestFailed>>])]
        /\ reqTimer' = FALSE
        /\ reqPc' = "idle"
     \/ /\ reqTimer
        /\ reqResponse' = [event |-> "abort", ok |-> FALSE, text |-> <<>>]
        /\ reqResult' =
             [kind |-> "throw",
              value |-> RequestCatch([name |-> "AbortError",
                                      message |-> <<"Aborted">>])]
        /\ reqTimer' = FALSE
        /\ reqPc' = "idle"
  /\ UNCHANGED << accessToken, reqOp, sent, reqCalls >>
  /\ UNCHANGED << bootVars, uiVars >>

\* await response.text(), the parse, the throw on !response.ok, return data;
\* the timer may still abort the body read
RequestBody ==
  /\ reqPc = "text"
  /\ \/ /\ reqResult' =
             IF reqResponse.ok
             THEN [kind |-> "return", value |-> ParseBody(reqResponse.text)]
             ELSE [kind |-> "throw",
                   value |-> RequestCatch(
                               [name |-> "Error",
                                message |-> HttpErrorMessage(reqResponse.text)])]
        /\ UNCHANGED reqResponse
     \/ /\ reqTimer
        /\ reqResponse' = [reqResponse EXCEPT !.event = "abortBody"]
        /\ reqResult' =
             [kind |-> "throw",
              value |-> RequestCatch([name |-> "AbortError",
                                      message |-> <<"Aborted">>])]
  /\ reqTimer' = FALSE
  /\ reqPc' = "idle"
  /\ UNCHANGED << accessToken, reqOp, sent, reqCalls >>
  /\ UNCHANGED << bootVars, uiVars >>

\* the six pickup/dropoff uploads
ApiUploads == { "api.verifyPickup", "api.verifyDropoff" }
MultipartUploads ==
  { "api.verifyPickupMultipart", "api.verifyDropoffMultipart",
    "verifyPickup", "verifyDropoff" }

\* api.verifyPickup, api.verifyDropoff: the headers of getAuthHeaders without
\* Content-Type
UploadHeaders == DeleteHeader(getAuthHeaders, "Content-Type")

\* api.verifyPickup / api.verifyDropoff up to their fetch
ApiUploadCall ==
  /\ reqPc = "idle"
  /\ reqCalls < MaxRequests
  /\ reqCalls' = reqCalls + 1
  /\ \E op \in ApiUploads :
       /\ reqOp' = op
       /\ sent' = [op |-> op, headers |-> UploadHeaders, token |-> accessToken]
  /\ reqResponse' = NoResponse
  /\ reqResult' = NoResult
  /\ reqPc' = "fetch"
  /\ UNCHANGED << accessToken, reqTimer >>
  /\ UNCHANGED << bootVars, uiVars >>

\* api.verifyPickupMultipart, api.verifyDropoffMultipart and the exports
\* verifyPickup, verifyDropoff up to their fetch; a storage error rejects
MultipartUploadCall ==
  /\ reqPc = "idle"
  /\ reqCalls < MaxRequests
  /\ reqCalls' = reqCalls + 1
  /\ reqResponse' = NoResponse
  /\ \E op \in MultipartUploads, storageError \in BOOLEAN :
       /\ reqOp' = op
       /\ IF storageError
          THEN /\ reqResult' = [kind |-> "throw", value |-> <<"storage">>]
               /\ reqPc' = "idle"
               /\ UNCHANGED sent
          ELSE /\ sent' = [op |-> op, headers |-> BearerHeader(accessToken),
                           token |-> accessToken]
               /\ reqResult' = NoResult
               /\ reqPc' = "fetch"
  /\ UNCHANGED << accessToken, reqTimer >>
  /\ UNCHANGED << bootVars, uiVars >>

\* the fetch of an upload settles: data for res.ok, an error otherwise
UploadResp ==
  /\ reqPc = "fetch"
  /\ reqOp \in ApiUploads \cup MultipartUploads
  /\ \E event \in { "response", "network" }, ok \in BOOLEAN, text \in Texts :
       /\ event = "network" => ~ok /\ text = <<>>
       /\ reqResponse' = [event |-> event, ok |-> ok, text |-> text]
       /\ reqResult' =
            IF event = "response" /\ ok
            THEN [kind |-> "return", value |-> ParseBody(text)]
            ELSE [kind |-> "throw", value |-> <<"upload failed">>]
  /\ reqPc' = "idle"
  /\ UNCHANGED << accessToken, reqOp, sent, reqTimer, reqCalls >>
  /\ UNCHANGED << bootVars, uiVars >>

\* api.clearAuth: multiRemove(['accessToken', 'refreshToken', 'userData'])
clearAuth ==
  /\ accessToken' = Null
  /\ userData' = NoUser
  /\ UNCHANGED << reqPc, reqOp, sent, reqTimer, reqResponse, reqResult,
                  reqCalls >>
  /\ UNCHANGED bootVars
  /\ UNCHANGED << connectionStatus, apiBase, email, password, loading, route,
                  alert, loginPc, loginCalls, loginRequests >>

\* ------------------------------------------------------------ specifications
InitCommon ==
  /\ API_BASE_URL = InitialBase
  /\ pc = "detect"
  /\ round = 1
  /\ candidates = <<>>
  /\ hostIdx = 1
  /\ varIdx = 1
  /\ probeTimer = FALSE
  /\ healthUrls = <<>>
  /\ testIdx = 1
  /\ failures = <<>>
  /\ isConnected = FALSE
  /\ inFlight = 0
  /\ probeLog = <<>>
  /\ detectRuns = 0
  /\ testRuns = 0
  /\ testResults = <<>>
  /\ hostReads = 0
  /\ hostWrites = 0
  /\ detectOutcome = "none"
  /\ detectReturn = Null
  /\ baseBefore = InitialBase
  /\ hostBefore = lastApiHost
  /\ okProbe = NoProbe
  /\ testBase = Null
  /\ testLog = <<>>
  /\ testOkUrl = Null
  /\ connectionStatus = "checking"
  /\ apiBase = <<>>
  /\ email = <<>>
  /\ password = <<>>
  /\ loading = FALSE
  /\ route = "/login"
  /\ alert = "none"
  /\ loginPc = "idle"
  /\ loginCalls = 0
  /\ loginRequests = 0
  /\ reqPc = "idle"
  /\ reqOp = "none"
  /\ sent = NoRequest
  /\ reqTimer = FALSE
  /\ reqResponse = NoResponse
  /\ reqResult = NoResult
  /\ reqCalls = 0

\* the application starts: the effect of the Login screen has called
\* initializeApp, in any of the environments considered
InitEnvironment(e) ==
  /\ envBase = e.base
  /\ envHost = e.host
  /\ hostUri = e.uri
  /\ platformOS = e.os
  /\ lastApiHost = e.stored
  /\ backend = e.up

Init ==
  /\ \E e \in Environments : InitEnvironment(e)
  /\ accessToken = Null
  /\ userData = NoUser
  /\ InitCommon

initializeAppSteps ==
  \/ DetectEntry
  \/ DetectGetItem
  \/ DetectProbe
  \/ DetectResp
  \/ DetectSetItem
  \/ DetectFallback
  \/ TestEntry
  \/ TestProbe
  \/ TestResp
  \/ TestSuccess
  \/ TestFailure
  \/ EffectDone

Next == initializeAppSteps

Spec == Init /\ [][Next]_vars

\* the Login screen on a device without host overrides
ScreenInit ==
  /\ \E e \in ScreenEnvironments : InitEnvironment(e)
  /\ accessToken = Null
  /\ userData = NoUser
  /\ InitCommon

ScreenNext ==
  \/ initializeAppSteps
  \/ SetEmail
  \/ SetPassword
  \/ DismissAlert
  \/ PressLogin
  \/ LoginResp
  \/ LoginStore

ScreenSpec == ScreenInit /\ [][ScreenNext]_vars

\* the bootstrap runs to its end, every request settles, and a user who can
\* press the login button does
ScreenFairSpec ==
  /\ ScreenSpec
  /\ WF_vars(initializeAppSteps)
  /\ WF_vars(PressLogin)
  /\ WF_vars(LoginResp)
  /\ WF_vars(LoginStore)

HandlerNext ==
  \/ initializeAppSteps
  \/ SetEmail
  \/ SetPassword
  \/ DismissAlert
  \/ CallHandleLogin
  \/ LoginResp
  \/ LoginStore

HandlerSpec == ScreenInit /\ [][HandlerNext]_vars

\* the API layer called with any stored token and user
ApiInit ==
  /\ InitEnvironment(BareDevice)
  /\ accessToken \in Tokens
  /\ userData \in UserDatas
  /\ InitCommon

ApiNext ==
  \/ ApiUploadCall
  \/ MultipartUploadCall
  \/ UploadResp
  \/ RequestCall
  \/ RequestResp
  \/ RequestBody
  \/ clearAuth

ApiSpec == ApiInit /\ [][ApiNext]_vars

\* -------------------------------------------------------------- properties
\* the variant order the probes are to follow: http, http:5000, https, https:5000
HealthUrlInOrder(host, k) ==
  CASE k = 1 -> HTTP \o host \o API \o HEALTH
    [] k = 2 -> HTTP \o host \o PORT5000 \o API \o HEALTH
    [] k = 3 -> HTTPS \o host \o API \o HEALTH
    [] k = 4 -> HTTPS \o host \o PORT5000 \o API \o HEALTH

BaseInOrder(host, k) ==
  CASE k = 1 -> HTTP \o host \o API
    [] k = 2 -> HTTP \o host \o PORT5000 \o API
    [] k = 3 -> HTTPS \o host \o API
    [] k = 4 -> HTTPS \o host \o PORT5000 \o API

SrcRank(src) ==
  CASE src = "env" -> 1
    [] src = "stored" -> 2
    [] src = "packager" -> 3
    [] src = "hardcoded" -> 4
    [] src = "emulator" -> 5
    [] src = "localhost" -> 6

ProbedSrc(n) == candidates[probeLog[n].cand].src
ProbedHost(n) == candidates[probeLog[n].cand].host

\* C2: the hosts are probed in the order environment override, cached host,
\* packager host, hardcoded hosts, emulator loopback; an absent source is
\* never probed, and a present environment override is probed first.
C2_CandidateOrder ==
  /\ \A i, j \in 1..Len(probeLog) :
       i < j => SrcRank(ProbedSrc(i)) <= SrcRank(ProbedSrc(j))
  /\ \A n \in 1..Len(probeLog) :
       /\ Truthy(ProbedHost(n))
       /\ ProbedSrc(n) = "env" => ProbedHost(n) = envHost
       /\ ProbedSrc(n) = "stored" => ProbedHost(n) = hostBefore
       /\ ProbedSrc(n) = "packager" =>
            ProbedHost(n) \o <<":", "8", "0", "8", "1">> = hostUri
       /\ ProbedSrc(n) = "hardcoded" => ProbedHost(n) = HardcodedHost
       /\ ProbedSrc(n) = "emulator" =>
            ProbedHost(n) = (IF platformOS = "android" THEN AndroidLoopback
                             ELSE Localhost)
  /\ Len(probeLog) >= 1 /\ Truthy(envHost) => ProbedSrc(1) = "env"
  /\ Len(probeLog) >= 1 /\ ~Truthy(envHost) =>
       ProbedSrc(1) \in { "stored", "packager", "hardcoded" }

\* the override, the cached host and a hardcoded host probed in one run
C2_Witness ==
  \E i, j, k \in 1..Len(probeLog) :
    /\ i < j /\ j < k
    /\ ProbedSrc(i) = "env"
    /\ ProbedSrc(j) = "stored"
    /\ ProbedSrc(k) = "hardcoded"

\* C3: initializeApp runs detection then a connection test, a second round
\* only after a failed first test, never a third one, and returns the result
\* of the last test it ran.
C3_RetryOnce ==
  /\ detectRuns <= 2
  /\ testRuns <= 2
  /\ testRuns <= detectRuns
  /\ detectRuns <= testRuns + 1
  /\ Len(testResults) <= testRuns
  /\ detectRuns = 2 => Len(testResults) >= 1 /\ ~testResults[1]
  /\ pc \in { "returned", "done" } =>
       /\ Len(testResults) = testRuns
       /\ testRuns = detectRuns
       /\ isConnected = testResults[Len(testResults)]
       /\ Len(testResults) = 1 => testResults[1]

\* a failed first round followed by a successful second one
C3_Witness ==
  /\ pc = "returned"
  /\ testResults = << FALSE, TRUE >>
  /\ isConnected

EndsWithSlash(s) == Len(s) > 0 /\ s[Len(s)] = "/"

\* C7: with a full base URL in EXPO_PUBLIC_API_BASE, detection issues no
\* probe, neither reads nor writes lastApiHost, and sets and returns
\* API_BASE_URL to that value less one trailing slash.
C7_ExplicitBase ==
  (Truthy(envBase) /\ HasProtocol(envBase)) =>
    /\ probeLog = <<>>
    /\ hostReads = 0
    /\ hostWrites = 0
    /\ pc = "detected" =>
         /\ detectReturn = API_BASE_URL
         /\ IF EndsWithSlash(envBase)
            THEN envBase = API_BASE_URL \o <<"/">>
            ELSE envBase = API_BASE_URL

\* detection returned for an explicit base that ends with a slash
C7_Witness ==
  /\ pc = "detected"
  /\ HasProtocol(envBase)
  /\ EndsWithSlash(envBase)
  /\ detectReturn # Null

\* the host name of a URL: what stands between "://" and the next ":" or "/"
HostName(url) ==
  LET rest == SubSeq(url, IndexOf(url, <<":", "/", "/">>) + 3, Len(url))
      stops == { i \in 1..Len(rest) : rest[i] \in { ":", "/" } }
  IN IF stops = {} THEN rest
     ELSE SubSeq(rest, 1, (CHOOSE i \in stops : \A j \in stops : i <= j) - 1)

C8_Fallback ==
  pc = "detected" /\ detectOutcome = "fallback" =>
    /\ API_BASE_URL = baseBefore
    /\ lastApiHost = hostBefore
    /\ detectReturn = baseBefore

\* C8 as stated: a detection without OK probe leaves API_BASE_URL and
\* lastApiHost unchanged and returns the previous base; after a detection
\* with an OK probe the stored lastApiHost is the host of the new base.
C8_Original ==
  /\ C8_Fallback
  /\ pc = "detected" /\ detectOutcome \in { "detected", "detectedUnsaved" } =>
       lastApiHost = HostName(API_BASE_URL)

\* C8 amended: a detection without OK probe leaves API_BASE_URL and
\* lastApiHost unchanged and returns the previous base; after a detection with
\* an OK probe whose write of lastApiHost succeeded, the stored lastApiHost is
\* the candidate host the new base was built from; when the storage rejected
\* the write, lastApiHost keeps the value it had before the run.
C8_Amended ==
  /\ C8_Fallback
  /\ pc = "detected" /\ detectOutcome = "detected" =>
       /\ \E k \in 1..4 : API_BASE_URL = BaseInOrder(lastApiHost, k)
       /\ detectReturn = API_BASE_URL
  /\ pc = "detected" /\ detectOutcome = "detectedUnsaved" =>
       /\ lastApiHost = hostBefore
       /\ detectReturn = API_BASE_URL

\* a detection that found a server and cached a host other than the old one
C8_Witness ==
  /\ pc = "detected"
  /\ detectOutcome = "detected"
  /\ lastApiHost # hostBefore
  /\ API_BASE_URL # baseBefore

\* the base with ":5000" put after its host
Port5000Form(base) ==
  LET start == IndexOf(base, <<":", "/", "/">>) + 3
      host == HostName(base)
  IN SubSeq(base, 1, start - 1) \o host \o PORT5000
       \o SubSeq(base, start + Len(host), Len(base))

TestReturned ==
  \/ pc \in { "returned", "done" }
  \/ pc = "detect" /\ round = 2

LastTestResult == testResults[Len(testResults)]

\* C9 as stated: testConnection probes the base's /health first and, only for
\* a base without ':5000', the port-5000 form of it second; it changes
\* API_BASE_URL only on a success of that second probe, to the port-5000
\* form; after true API_BASE_URL + '/health' is the URL that answered OK,
\* after false API_BASE_URL is unchanged.
C9_Original ==
  /\ Len(testLog) >= 1 => testLog[1] = testBase \o HEALTH
  /\ Len(testLog) >= 2 =>
       /\ ~Includes(testBase, PORT5000)
       /\ testLog[2] = Port5000Form(testBase) \o HEALTH
  /\ Len(testLog) <= 2
  /\ TestReturned /\ LastTestResult =>
       /\ API_BASE_URL \o HEALTH = testOkUrl
       /\ API_BASE_URL # testBase =>
            /\ testOkUrl = testLog[2]
            /\ API_BASE_URL = Port5000Form(testBase)
  /\ TestReturned /\ ~LastTestResult => API_BASE_URL = testBase

\* C4 as stated: once both bootstrap rounds have failed and connectionStatus
\* is 'failed', the user's login action leads to the 'Connection Error' alert.
C4_Original == (connectionStatus = "failed") ~> (alert = "Connection Error")

AuthenticatedOps == { "api.request" } \cup ApiUploads \cup MultipartUploads

\* C5 as stated: every authenticated request (api.request and each pickup or
\* dropoff upload) carries 'Authorization: Bearer <token>' when a token is
\* persisted at the time of the call, and no Authorization header otherwise.
C5_Original ==
  sent.op \in AuthenticatedOps =>
    IF Truthy(sent.token)
    THEN /\ "Authorization" \in DOMAIN sent.headers
         /\ sent.headers["Authorization"] = << "Bearer", sent.token >>
    ELSE "Authorization" \notin DOMAIN sent.headers

RequestSettled ==
  reqOp = "api.request" /\ reqPc = "idle" /\ reqResult # NoResult

\* C6: api.request returns the parsed body only for an OK response; a non-OK
\* response, the 10 s abort and a network failure each end in a thrown error,
\* the abort before the response in 'Request timed out (10s) ...'; the timer
\* is cleared when the call completes.
C6_RequestOutcomes ==
  /\ reqOp = "api.request" /\ reqPc = "idle" => reqResult # NoResult /\ ~reqTimer
  /\ RequestSettled =>
       /\ reqResult.kind \in { "return", "throw" }
       /\ reqResult.kind = "return" <=>
            reqResponse.event = "response" /\ reqResponse.ok
       /\ reqResult.kind = "return" =>
            reqResult.value = (IF reqResponse.text = JsonText
                               THEN << "success", "true" >> ELSE Null)
       /\ reqResponse.event = "abort" =>
            /\ reqResult.kind = "throw"
            /\ reqResult.value[1] = "Request timed out (10s) contacting "
       /\ reqResponse.event = "network" => reqResult.kind = "throw"
       /\ reqResponse.event = "response" /\ ~reqResponse.ok =>
            reqResult.kind = "throw"

\* a call whose fetch was aborted by the timer
C6_Witness ==
  /\ RequestSettled
  /\ reqResponse.event = "abort"
  /\ reqResult.kind = "throw"

\* C10: handleLogin, called while connectionStatus is 'failed' or with an empty
\* email or password, raises an alert and returns without sending the login
\* request and without changing loading, the stored user data or the route.
C10_NoLoginRequest ==
  [][ (loginCalls' # loginCalls
       /\ (connectionStatus = "failed" \/ email = <<>> \/ password = <<>>))
      => /\ alert' = (IF connectionStatus = "failed" THEN "Connection Error"
                      ELSE "Error")
         /\ loginRequests' = loginRequests
         /\ loginPc' = loginPc
         /\ loading' = loading
         /\ userData' = userData
         /\ route' = route ]_vars

\* handleLogin has answered a failed bootstrap with its alert, nothing sent
C10_Witness ==
  /\ connectionStatus = "failed"
  /\ alert = "Connection Error"
  /\ loginCalls = 1
  /\ loginRequests = 0
====
